---------------------------- MODULE Spec2Model ----------------------------
(***************************************************************************)
(* Model of wendlers/srf05modweb.                                          *)
(*                                                                         *)
(*   srf05mod/src/srf05.c    kernel module: trigger/echo measurement of an *)
(*                           SRF05 range finder on one GPIO line, driven   *)
(*                           by a self re-arming kernel timer, published   *)
(*                           through three sysfs attributes.               *)
(*   srf05web/src/srf05web.c user-space web service: a main loop that      *)
(*                           appends the sysfs values to an in-memory ring *)
(*                           buffer and to a per-day CSV file, and request *)
(*                           handler threads that render the values.       *)
(*                                                                         *)
(* The busy-wait budgets, the ring capacity and the history interval are   *)
(* the program's constants scaled down; every statement below is about the *)
(* code with those constants.                                              *)
(***************************************************************************)
EXTENDS Integers, Sequences, FiniteSets, TLC

(* ------------------------------------------------------------------ *)
(* Constants of srf05.c (scaled)                                       *)
(* ------------------------------------------------------------------ *)

\* srf05.c:27  #define MEASURE_START_TIMEOUT 25000
MEASURE_START_TIMEOUT == 2

\* srf05.c:30  #define MEASURE_XMIT_TIMEOUT 100000
MEASURE_XMIT_TIMEOUT == 3

\* srf05.c:39  static int srf05_cmdiv = 450
srf05_cmdiv == 2

\* Number of CPUs on which the kernel may run an expired timer's function.
NCPU == 2

CPUs == 1..NCPU

\* Levels gpio_get_value can return.
Levels == {0, 1}

VARIABLES
    \* ---- srf05.c ----
    distance,       \* static unsigned long distance (srf05.c:45)
    status,         \* static int status: 0 OPERATIONAL, 1 ERROR (srf05.c:48)
    mod_pc,         \* module life cycle: where srf05_init / srf05_exit stand
    kobj,           \* TRUE while the sysfs attributes of srf05_kobj exist
    gpio,           \* TRUE while srf05_gpio is requested (not freed)
    timer_pending,  \* measure_timer is queued (add_timer done, not yet expired)
    cpu,            \* per CPU: the measure_timer_func instance running there
    fired_late,     \* history: a firing started after srf05_exit had begun
    gpio_misuse,    \* history: the line was accessed while not requested
    double_arm,     \* history: add_timer was called on a queued timer
    inflight,       \* history: "yes" from a srf05_exit entered during a
                    \* measure() until that measure() returns ("done")
    wrote           \* history: whether some measure() call has assigned
                    \* distance, and whether one has assigned status

drv_vars == <<distance, status, mod_pc, kobj, gpio, timer_pending, cpu,
              fired_late, gpio_misuse, double_arm, inflight, wrote>>

(* ------------------------------------------------------------------ *)
(* Constants of srf05web.c (scaled)                                    *)
(* ------------------------------------------------------------------ *)

\* srf05web.c:69  #define MAX_HISTORY 48
MAX_HISTORY == 3

\* srf05web.c:49  #define HISTORY_INTERVAL 3600
HISTORY_INTERVAL == 1

\* Seconds of one calendar day of localtime() (86400, scaled).
SecondsPerDay == 4

\* The main loop is followed until the clock of time() shows MaxClock.
MaxClock == 7

Slots == 0..(MAX_HISTORY - 1)

URIs == {"/sensor/srf05", "/sensor/srf05/history", "/other"}

VARIABLES
    \* ---- srf05web.c ----
    history,      \* static history_table history: entries, curr, count
    interrupted,  \* int interrupted (srf05web.c:74)
    proc,         \* the process: "starting", "running", "crashed", "exited"
    main,         \* frame of main(): pc, loopcnt, pos and file of the callee;
                  \* history: iters, the sleep(1) calls returned since the
                  \* last add_history call, and gap, what iters was when
                  \* that call was made after an earlier one
    clock,        \* what time() returns, in seconds
    log,          \* the lines appended to the history files, in write order
    h,            \* frame of one begin_request_handler call (a server thread)
    written,      \* history: per slot and field, the add_history call that
                  \* stored it last (0: none)
    nadd,         \* history: add_history calls begun
    appended,     \* history: slot and entry of each completed add_history
    dumped,       \* history: per dump_history call, its slot, entry, fopen
    null_write    \* history: fprintf/fclose were called with file == NULL

web_vars == <<history, interrupted, proc, main, clock, log, h, written, nadd,
              appended, dumped, null_write>>

vars == <<drv_vars, web_vars>>

(* ------------------------------------------------------------------ *)
(* srf05.c: measure() and measure_timer_func()                         *)
(* ------------------------------------------------------------------ *)

\* The frame of one measure_timer_func call.  pc is the position in the
\* code, t the local counter of measure(); the other fields are history
\* variables of the call in progress: pre and pre_st the raw distance and
\* the status at entry, spolls/wpolls the gpio_get_value calls of each loop,
\* incs the t++ of the echo-width loop, high_at the first poll of the
\* echo-start loop that returned 1 and low_at the first poll of the
\* echo-width loop that returned 0 (0: none did), res how measure()
\* returned, stored whether it assigned distance, calls/arms how often this
\* firing called measure() and add_timer().
IdleFrame ==
    [pc |-> "idle", t |-> 0, pre |-> 0, pre_st |-> 0, spolls |-> 0,
     wpolls |-> 0, incs |-> 0, high_at |-> 0, low_at |-> 0, res |-> "none",
     stored |-> FALSE, calls |-> 0, arms |-> 0]

Running(c) == cpu[c].pc # "idle"

InMeasure(c) ==
    cpu[c].pc \in {"trigger", "start_poll", "start_check", "width_poll",
                   "width_check", "store"}

\* A gpio_* call made while the line is not requested.
Touch == gpio_misuse' = (gpio_misuse \/ ~gpio)

\* measure() returns.
Returned == inflight' = IF inflight = "yes" THEN "done" ELSE inflight

\* The timer expires: the kernel takes measure_timer off its queue and
\* calls measure_timer_func on some CPU.
TimerFire(c) ==
    /\ timer_pending
    /\ ~Running(c)
    /\ timer_pending' = FALSE
    /\ cpu' = [cpu EXCEPT ![c] = [IdleFrame EXCEPT !.pc = "call"]]
    /\ fired_late' = (fired_late \/ mod_pc # "live")
    /\ UNCHANGED <<distance, status, mod_pc, kobj, gpio, gpio_misuse,
                   double_arm>>
    /\ UNCHANGED <<inflight, wrote, web_vars>>

\* Mutant of CallMeasure: the timer is re-armed before measure() is called.
CallMeasureArmsFirst(c) ==
    /\ cpu[c].pc = "call"
    /\ timer_pending' = TRUE
    /\ cpu' = [cpu EXCEPT ![c].pc = "trigger", ![c].t = 0,
                          ![c].pre = distance, ![c].pre_st = status,
                          ![c].calls = cpu[c].calls + 1]
    /\ UNCHANGED <<distance, status, mod_pc, kobj, gpio, fired_late,
                   gpio_misuse, double_arm>>
    /\ UNCHANGED <<inflight, wrote, web_vars>>

\* measure_timer_func: measure();  (srf05.c:148)
CallMeasure(c) ==
    /\ cpu[c].pc = "call"
    /\ cpu' = [cpu EXCEPT ![c].pc = "trigger", ![c].t = 0,
                          ![c].pre = distance, ![c].pre_st = status,
                          ![c].calls = cpu[c].calls + 1]
    /\ UNCHANGED <<distance, status, mod_pc, kobj, gpio, timer_pending,
                   fired_late, gpio_misuse, double_arm>>
    /\ UNCHANGED <<inflight, wrote, web_vars>>

\* measure(): t = 0; the trigger pulse; line to input (srf05.c:113-121)
MeasureTrigger(c) ==
    /\ cpu[c].pc = "trigger"
    /\ cpu' = [cpu EXCEPT ![c].pc = "start_poll", ![c].t = 0]
    /\ Touch
    /\ UNCHANGED <<distance, status, mod_pc, kobj, gpio, timer_pending,
                   fired_late, double_arm>>
    /\ UNCHANGED <<inflight, wrote, web_vars>>

\* while(gpio_get_value(srf05_gpio) == 0 && t < MEASURE_START_TIMEOUT) t++;
\* one evaluation of the condition, v the level read (srf05.c:123)
StartPoll(c) ==
    /\ cpu[c].pc = "start_poll"
    /\ \E v \in Levels :
         cpu' = [cpu EXCEPT
                   ![c].spolls = cpu[c].spolls + 1,
                   ![c].high_at = IF v = 1 /\ cpu[c].high_at = 0
                                  THEN cpu[c].spolls + 1 ELSE cpu[c].high_at,
                   ![c].t = IF v = 0 /\ cpu[c].t < MEASURE_START_TIMEOUT
                            THEN cpu[c].t + 1 ELSE cpu[c].t,
                   ![c].pc = IF v = 0 /\ cpu[c].t < MEASURE_START_TIMEOUT
                             THEN "start_poll" ELSE "start_check"]
    /\ Touch
    /\ UNCHANGED <<distance, status, mod_pc, kobj, gpio, timer_pending,
                   fired_late, double_arm>>
    /\ UNCHANGED <<inflight, wrote, web_vars>>

\* Mutant of StartCheck: the counter is not reset before the echo-width
\* loop.
StartCheckKeepsT(c) ==
    /\ cpu[c].pc = "start_check"
    /\ IF cpu[c].t >= MEASURE_START_TIMEOUT
       THEN /\ status' = 1
            /\ wrote' = [wrote EXCEPT !.status = TRUE]
            /\ cpu' = [cpu EXCEPT ![c].pc = "rearm",
                                  ![c].res = "start_timeout"]
            /\ Returned
       ELSE /\ status' = status
            /\ wrote' = wrote
            /\ cpu' = [cpu EXCEPT ![c].pc = "width_poll"]
            /\ inflight' = inflight
    /\ UNCHANGED <<distance, mod_pc, kobj, gpio, timer_pending, fired_late,
                   gpio_misuse, double_arm>>
    /\ UNCHANGED web_vars

\* Mutant of StartCheck: the timeout is taken one tick early,
\* if(t >= MEASURE_START_TIMEOUT - 1).
StartCheckOneEarly(c) ==
    /\ cpu[c].pc = "start_check"
    /\ IF cpu[c].t >= MEASURE_START_TIMEOUT - 1
       THEN /\ status' = 1
            /\ wrote' = [wrote EXCEPT !.status = TRUE]
            /\ cpu' = [cpu EXCEPT ![c].pc = "rearm",
                                  ![c].res = "start_timeout"]
            /\ Returned
       ELSE /\ status' = status
            /\ wrote' = wrote
            /\ cpu' = [cpu EXCEPT ![c].pc = "width_poll", ![c].t = 0]
            /\ inflight' = inflight
    /\ UNCHANGED <<distance, mod_pc, kobj, gpio, timer_pending, fired_late,
                   gpio_misuse, double_arm>>
    /\ UNCHANGED web_vars

\* if(t >= MEASURE_START_TIMEOUT) { status = 1; return; }  t = 0;
\* (srf05.c:125-130)
StartCheck(c) ==
    /\ cpu[c].pc = "start_check"
    /\ IF cpu[c].t >= MEASURE_START_TIMEOUT
       THEN /\ status' = 1
            /\ wrote' = [wrote EXCEPT !.status = TRUE]
            /\ cpu' = [cpu EXCEPT ![c].pc = "rearm",
                                  ![c].res = "start_timeout"]
            /\ Returned
       ELSE /\ status' = status
            /\ wrote' = wrote
            /\ cpu' = [cpu EXCEPT ![c].pc = "width_poll", ![c].t = 0]
            /\ inflight' = inflight
    /\ UNCHANGED <<distance, mod_pc, kobj, gpio, timer_pending, fired_late,
                   gpio_misuse, double_arm>>
    /\ UNCHANGED web_vars

\* Mutant of WidthPoll: the loop runs while t <= MEASURE_XMIT_TIMEOUT.
WidthPollOneMore(c) ==
    /\ cpu[c].pc = "width_poll"
    /\ \E v \in Levels :
         cpu' = [cpu EXCEPT
                   ![c].wpolls = cpu[c].wpolls + 1,
                   ![c].low_at = IF v = 0 /\ cpu[c].low_at = 0
                                 THEN cpu[c].wpolls + 1 ELSE cpu[c].low_at,
                   ![c].incs = IF v = 1 /\ cpu[c].t <= MEASURE_XMIT_TIMEOUT
                               THEN cpu[c].incs + 1 ELSE cpu[c].incs,
                   ![c].t = IF v = 1 /\ cpu[c].t <= MEASURE_XMIT_TIMEOUT
                            THEN cpu[c].t + 1 ELSE cpu[c].t,
                   ![c].pc = IF v = 1 /\ cpu[c].t <= MEASURE_XMIT_TIMEOUT
                             THEN "width_poll" ELSE "width_check"]
    /\ Touch
    /\ UNCHANGED <<distance, status, mod_pc, kobj, gpio, timer_pending,
                   fired_late, double_arm>>
    /\ UNCHANGED <<inflight, wrote, web_vars>>

\* while(gpio_get_value(srf05_gpio) == 1 && t < MEASURE_XMIT_TIMEOUT) t++;
\* one evaluation of the condition (srf05.c:132)
WidthPoll(c) ==
    /\ cpu[c].pc = "width_poll"
    /\ \E v \in Levels :
         cpu' = [cpu EXCEPT
                   ![c].wpolls = cpu[c].wpolls + 1,
                   ![c].low_at = IF v = 0 /\ cpu[c].low_at = 0
                                 THEN cpu[c].wpolls + 1 ELSE cpu[c].low_at,
                   ![c].incs = IF v = 1 /\ cpu[c].t < MEASURE_XMIT_TIMEOUT
                               THEN cpu[c].incs + 1 ELSE cpu[c].incs,
                   ![c].t = IF v = 1 /\ cpu[c].t < MEASURE_XMIT_TIMEOUT
                            THEN cpu[c].t + 1 ELSE cpu[c].t,
                   ![c].pc = IF v = 1 /\ cpu[c].t < MEASURE_XMIT_TIMEOUT
                             THEN "width_poll" ELSE "width_check"]
    /\ Touch
    /\ UNCHANGED <<distance, status, mod_pc, kobj, gpio, timer_pending,
                   fired_late, double_arm>>
    /\ UNCHANGED <<inflight, wrote, web_vars>>

\* Mutant of WidthCheck: the timed-out counter is stored as the distance.
WidthCheckStores(c) ==
    /\ cpu[c].pc = "width_check"
    /\ IF cpu[c].t >= MEASURE_XMIT_TIMEOUT
       THEN /\ status' = 1
            /\ distance' = cpu[c].t
            /\ wrote' = [distance |-> TRUE, status |-> TRUE]
            /\ cpu' = [cpu EXCEPT ![c].pc = "rearm",
                                  ![c].res = "xmit_timeout"]
            /\ Returned
       ELSE /\ status' = 0
            /\ distance' = distance
            /\ wrote' = [wrote EXCEPT !.status = TRUE]
            /\ cpu' = [cpu EXCEPT ![c].pc = "store"]
            /\ inflight' = inflight
    /\ UNCHANGED <<mod_pc, kobj, gpio, timer_pending, fired_late,
                   gpio_misuse, double_arm>>
    /\ UNCHANGED web_vars

\* Mutant of WidthCheck: the test is if(t > MEASURE_XMIT_TIMEOUT).
WidthCheckLateTimeout(c) ==
    /\ cpu[c].pc = "width_check"
    /\ IF cpu[c].t > MEASURE_XMIT_TIMEOUT
       THEN /\ status' = 1
            /\ cpu' = [cpu EXCEPT ![c].pc = "rearm",
                                  ![c].res = "xmit_timeout"]
            /\ Returned
       ELSE /\ status' = 0
            /\ cpu' = [cpu EXCEPT ![c].pc = "store"]
            /\ inflight' = inflight
    /\ wrote' = [wrote EXCEPT !.status = TRUE]
    /\ UNCHANGED <<distance, mod_pc, kobj, gpio, timer_pending, fired_late,
                   gpio_misuse, double_arm>>
    /\ UNCHANGED web_vars

\* if(t >= MEASURE_XMIT_TIMEOUT) { status = 1; return; }  status = 0;
\* (srf05.c:134-139)
WidthCheck(c) ==
    /\ cpu[c].pc = "width_check"
    /\ IF cpu[c].t >= MEASURE_XMIT_TIMEOUT
       THEN /\ status' = 1
            /\ cpu' = [cpu EXCEPT ![c].pc = "rearm",
                                  ![c].res = "xmit_timeout"]
            /\ Returned
       ELSE /\ status' = 0
            /\ cpu' = [cpu EXCEPT ![c].pc = "store"]
            /\ inflight' = inflight
    /\ wrote' = [wrote EXCEPT !.status = TRUE]
    /\ UNCHANGED <<distance, mod_pc, kobj, gpio, timer_pending, fired_late,
                   gpio_misuse, double_arm>>
    /\ UNCHANGED web_vars

\* distance = t;  and measure() returns (srf05.c:140-141)
MeasureStore(c) ==
    /\ cpu[c].pc = "store"
    /\ distance' = cpu[c].t
    /\ wrote' = [wrote EXCEPT !.distance = TRUE]
    /\ cpu' = [cpu EXCEPT ![c].pc = "rearm", ![c].res = "ok",
                          ![c].stored = TRUE]
    /\ UNCHANGED <<status, mod_pc, kobj, gpio, timer_pending, fired_late,
                   gpio_misuse, double_arm>>
    /\ Returned
    /\ UNCHANGED web_vars

\* measure_timer.expires = jiffies + SCAN_DELAY / srf05_updiv;
\* add_timer(&measure_timer);  add_timer on a timer that is already queued
\* is a kernel BUG, recorded in double_arm (srf05.c:153-154)
AddTimer(c) ==
    /\ cpu[c].pc = "rearm"
    /\ timer_pending' = TRUE
    /\ double_arm' = (double_arm \/ timer_pending)
    /\ cpu' = [cpu EXCEPT ![c] = [IdleFrame EXCEPT
                                     !.pc = "ret",
                                     !.calls = cpu[c].calls,
                                     !.arms = cpu[c].arms + 1]]
    /\ UNCHANGED <<distance, status, mod_pc, kobj, gpio, fired_late,
                   gpio_misuse>>
    /\ UNCHANGED <<inflight, wrote, web_vars>>

\* measure_timer_func returns (srf05.c:155)
TimerReturn(c) ==
    /\ cpu[c].pc = "ret"
    /\ cpu' = [cpu EXCEPT ![c] = IdleFrame]
    /\ UNCHANGED <<distance, status, mod_pc, kobj, gpio, timer_pending,
                   fired_late, gpio_misuse, double_arm>>
    /\ UNCHANGED <<inflight, wrote, web_vars>>

measure_timer_func(c) ==
    \/ CallMeasure(c)
    \/ MeasureTrigger(c)
    \/ StartPoll(c)
    \/ StartCheck(c)
    \/ WidthPoll(c)
    \/ WidthCheck(c)
    \/ MeasureStore(c)
    \/ AddTimer(c)
    \/ TimerReturn(c)

(* ------------------------------------------------------------------ *)
(* srf05.c: srf05_init() and srf05_exit()                              *)
(* ------------------------------------------------------------------ *)

\* srf05_init: kobject and sysfs group, gpio_request_one, then the timer is
\* initialised and armed once.  On a failure the kobject is put and nothing
\* is armed (srf05.c:160-202).
srf05_init ==
    /\ mod_pc = "unloaded"
    /\ \E ok \in BOOLEAN :
         IF ok
         THEN /\ mod_pc' = "live"
              /\ kobj' = TRUE
              /\ gpio' = TRUE
              /\ timer_pending' = TRUE
         ELSE /\ mod_pc' = "failed"
              /\ UNCHANGED <<kobj, gpio, timer_pending>>
    /\ UNCHANGED <<distance, status, cpu, fired_late, gpio_misuse, double_arm>>
    /\ UNCHANGED <<inflight, wrote, web_vars>>

\* srf05_exit: printk; kobject_put(srf05_kobj);  (srf05.c:209-212)
ExitKobjectPut ==
    /\ mod_pc = "live"
    /\ mod_pc' = "exit_del"
    /\ kobj' = FALSE
    /\ inflight' = IF \E c \in CPUs : InMeasure(c) THEN "yes" ELSE "no"
    /\ UNCHANGED <<distance, status, gpio, timer_pending, cpu, fired_late,
                   gpio_misuse, double_arm, wrote>>
    /\ UNCHANGED web_vars

\* Mutant of ExitDelTimerSync: del_timer, which does not wait for a running
\* timer function.
ExitDelTimer ==
    /\ mod_pc = "exit_del"
    /\ timer_pending' = FALSE
    /\ mod_pc' = "exit_free"
    /\ UNCHANGED <<distance, status, kobj, gpio, cpu, fired_late,
                   gpio_misuse, double_arm>>
    /\ UNCHANGED <<inflight, wrote, web_vars>>

\* del_timer_sync(&measure_timer): spins while the timer's function runs on
\* some CPU, then takes the timer off the queue if it is there (srf05.c:215)
ExitDelTimerSync ==
    /\ mod_pc = "exit_del"
    /\ \A c \in CPUs : ~Running(c)
    /\ timer_pending' = FALSE
    /\ mod_pc' = "exit_free"
    /\ UNCHANGED <<distance, status, kobj, gpio, cpu, fired_late,
                   gpio_misuse, double_arm>>
    /\ UNCHANGED <<inflight, wrote, web_vars>>

\* gpio_free(srf05_gpio);  (srf05.c:218)
ExitGpioFree ==
    /\ mod_pc = "exit_free"
    /\ gpio' = FALSE
    /\ mod_pc' = "gone"
    /\ UNCHANGED <<distance, status, kobj, timer_pending, cpu, fired_late,
                   gpio_misuse, double_arm>>
    /\ UNCHANGED <<inflight, wrote, web_vars>>

srf05_exit ==
    \/ ExitKobjectPut
    \/ ExitDelTimerSync
    \/ ExitGpioFree

DrvInit ==
    /\ distance = 0
    /\ status = 0
    /\ mod_pc = "unloaded"
    /\ kobj = FALSE
    /\ gpio = FALSE
    /\ timer_pending = FALSE
    /\ cpu = [c \in CPUs |-> IdleFrame]
    /\ fired_late = FALSE
    /\ gpio_misuse = FALSE
    /\ double_arm = FALSE
    /\ inflight = "no"
    /\ wrote = [distance |-> FALSE, status |-> FALSE]

DrvNext ==
    \/ srf05_init
    \/ \E c \in CPUs : TimerFire(c)
    \/ \E c \in CPUs : measure_timer_func(c)
    \/ srf05_exit

(* ------------------------------------------------------------------ *)
(* The sysfs attributes and their readers                              *)
(* ------------------------------------------------------------------ *)

\* sprintf(buf, "%lu\n", distance)  (srf05.c:65-68)
sysfs_distance_raw_show == distance

\* sprintf(buf, "%lu\n", distance / srf05_cmdiv)  (srf05.c:75-78)
sysfs_distance_cm_show == distance \div srf05_cmdiv

\* sprintf(buf, "%s\n", (status == 1 ? "ERROR" : "OPERATIONAL"))
\* (srf05.c:85-88)
sysfs_status_show == IF status = 1 THEN "ERROR" ELSE "OPERATIONAL"

\* Mutant of srf05_read_distance: 0 instead of -1 when the file cannot be
\* opened.
srf05_read_distance_zero(unit) ==
    IF ~kobj THEN 0
    ELSE IF unit = "cm" THEN sysfs_distance_cm_show
    ELSE sysfs_distance_raw_show

\* fopen of /sys/kernel/srf05/distance_<unit>; -1 when it cannot be opened,
\* else atol of the line read (srf05web.c:153-173)
srf05_read_distance(unit) ==
    IF ~kobj THEN -1
    ELSE IF unit = "cm" THEN sysfs_distance_cm_show
    ELSE sysfs_distance_raw_show

\* fopen of /sys/kernel/srf05/status; "UNKNOWN" when it cannot be opened,
\* else the line read without its newline (srf05web.c:182-198)
srf05_read_status == IF ~kobj THEN "UNKNOWN" ELSE sysfs_status_show

\* localtime(): calendar day and second of the day of a time_t.
localtime(ts) == [day |-> ts \div SecondsPerDay, sec |-> ts % SecondsPerDay]

\* (stat == 0 ? "ERROR" : "OPERATIONAL")  (srf05web.c:267, 324)
StatLabel(stat) == IF stat = 0 THEN "ERROR" ELSE "OPERATIONAL"

\* A history_entry of the zero-initialised static table.
ZeroEntry == [ts |-> 0, dcm |-> 0, draw |-> 0, stat |-> 0]

NoWriter == [ts |-> 0, dcm |-> 0, draw |-> 0, stat |-> 0]

(* ------------------------------------------------------------------ *)
(* srf05web.c: main(), add_history(), dump_history()                   *)
(* ------------------------------------------------------------------ *)

AddPcs == {"add_count", "add_ts", "add_cm", "add_raw", "add_stat",
           "add_curr"}

\* A step of add_history: it overlaps the request handler in progress, if
\* there is one, and it ends the period in which the history stood as the
\* last traversal found it.
Overlapped ==
    [h EXCEPT !.overlap = (h.overlap \/ h.pc # "idle"), !.last = <<>>]

\* main(): chdir(DOC_ROOT), signal(), mg_start(); loopcnt = HISTORY_INTERVAL
\* (srf05web.c:365-386)
main_start ==
    /\ proc = "starting"
    /\ \E ok \in BOOLEAN :
         IF ok
         THEN /\ proc' = "running"
              /\ main' = [main EXCEPT !.pc = "loop",
                                      !.loopcnt = HISTORY_INTERVAL]
         ELSE /\ proc' = "exited"
              /\ main' = main
    /\ UNCHANGED <<history, interrupted, clock, log, h, written, nadd,
                   appended, dumped, null_write, drv_vars>>

\* sig_handler: interrupted = 1  (srf05web.c:143-145)
sig_handler ==
    /\ proc = "running"
    /\ interrupted = 0
    /\ interrupted' = 1
    /\ UNCHANGED <<history, proc, main, clock, log, h, written, nadd,
                   appended, dumped, null_write, drv_vars>>

\* while(!interrupted)  (srf05web.c:389)
LoopTest ==
    /\ proc = "running"
    /\ main.pc = "loop"
    /\ main' = [main EXCEPT !.pc = IF interrupted = 0 THEN "sleep"
                                   ELSE "stop"]
    /\ UNCHANGED <<history, interrupted, proc, clock, log, h, written, nadd,
                   appended, dumped, null_write, drv_vars>>

\* sleep(1): a second passes, unless the signal cuts the sleep short
\* (srf05web.c:390)
Sleep ==
    /\ proc = "running"
    /\ main.pc = "sleep"
    /\ \/ clock < MaxClock /\ clock' = clock + 1
       \/ interrupted = 1 /\ clock' = clock
    /\ main' = [main EXCEPT !.pc = "check", !.iters = main.iters + 1]
    /\ UNCHANGED <<history, interrupted, proc, log, h, written, nadd,
                   appended, dumped, null_write, drv_vars>>

\* if(loopcnt++ >= HISTORY_INTERVAL)  (srf05web.c:392)
LoopCheck ==
    /\ proc = "running"
    /\ main.pc = "check"
    /\ main' = [main EXCEPT !.loopcnt = main.loopcnt + 1,
                            !.pc = IF main.loopcnt >= HISTORY_INTERVAL
                                   THEN "add_pos" ELSE "loop"]
    /\ UNCHANGED <<history, interrupted, proc, clock, log, h, written, nadd,
                   appended, dumped, null_write, drv_vars>>

\* add_history: int pos = history.curr + 1;
\* if(pos >= history.size) { pos = 0; history.curr = -1; }
\* (srf05web.c:208-213)
AddPos ==
    /\ proc = "running"
    /\ main.pc = "add_pos"
    /\ IF history.curr + 1 >= MAX_HISTORY
       THEN /\ main' = [main EXCEPT
                          !.pc = "add_count", !.pos = 0, !.iters = 0,
                          !.gap = IF nadd > 0 THEN main.iters ELSE 0]
            /\ history' = [history EXCEPT !.curr = -1]
       ELSE /\ main' = [main EXCEPT
                          !.pc = "add_count", !.pos = history.curr + 1,
                          !.iters = 0,
                          !.gap = IF nadd > 0 THEN main.iters ELSE 0]
            /\ history' = history
    /\ nadd' = nadd + 1
    /\ h' = Overlapped
    /\ UNCHANGED <<interrupted, proc, clock, log, written, appended, dumped,
                   null_write, drv_vars>>

\* Mutant of AddCount: history.count++ without the test against
\* history.size.
AddCountUnbounded ==
    /\ proc = "running"
    /\ main.pc = "add_count"
    /\ history' = [history EXCEPT !.count = history.count + 1]
    /\ main' = [main EXCEPT !.pc = "add_ts"]
    /\ h' = Overlapped
    /\ UNCHANGED <<interrupted, proc, clock, log, written, nadd, appended,
                   dumped, null_write, drv_vars>>

\* if(history.count < history.size) history.count++;  (srf05web.c:215-217)
AddCount ==
    /\ proc = "running"
    /\ main.pc = "add_count"
    /\ history' = [history EXCEPT
                     !.count = IF history.count < MAX_HISTORY
                               THEN history.count + 1 ELSE history.count]
    /\ main' = [main EXCEPT !.pc = "add_ts"]
    /\ h' = Overlapped
    /\ UNCHANGED <<interrupted, proc, clock, log, written, nadd, appended,
                   dumped, null_write, drv_vars>>

\* One field of history.entries[pos] is stored by add_history call nadd.
StoreField(f, v, next) ==
    /\ proc = "running"
    /\ history' = [history EXCEPT !.entries[main.pos][f] = v]
    /\ written' = [written EXCEPT ![main.pos][f] = nadd]
    /\ main' = [main EXCEPT !.pc = next]
    /\ h' = Overlapped
    /\ UNCHANGED <<interrupted, proc, clock, log, nadd, appended, dumped,
                   null_write, drv_vars>>

\* time(&history.entries[pos].ts);  (srf05web.c:219)
AddTs == main.pc = "add_ts" /\ StoreField("ts", clock, "add_cm")

\* history.entries[pos].dcm = srf05_read_distance("cm");  (srf05web.c:221)
AddCm ==
    main.pc = "add_cm" /\ StoreField("dcm", srf05_read_distance("cm"),
                                     "add_raw")

\* history.entries[pos].draw = srf05_read_distance("raw");  (srf05web.c:222)
AddRaw ==
    main.pc = "add_raw" /\ StoreField("draw", srf05_read_distance("raw"),
                                      "add_stat")

\* stat = 1 if srf05_read_status is "OPERATIONAL", else 0
\* (srf05web.c:224-229)
AddStat ==
    main.pc = "add_stat"
    /\ StoreField("stat",
                  IF srf05_read_status = "OPERATIONAL" THEN 1 ELSE 0,
                  "add_curr")

\* history.curr++;  and add_history returns (srf05web.c:231-232)
AddCurr ==
    /\ proc = "running"
    /\ main.pc = "add_curr"
    /\ history' = [history EXCEPT !.curr = history.curr + 1]
    /\ appended' = Append(appended, [slot |-> main.pos,
                                     e |-> history.entries[main.pos]])
    /\ main' = [main EXCEPT !.pc = "dump_open"]
    /\ h' = Overlapped
    /\ UNCHANGED <<interrupted, proc, clock, log, written, nadd, dumped,
                   null_write, drv_vars>>

add_history ==
    \/ AddPos
    \/ AddCount
    \/ AddTs
    \/ AddCm
    \/ AddRaw
    \/ AddStat
    \/ AddCurr


\* One line of a history file: the file's day and the fields fprintf
\* prints, "date","time","status",cm,raw  (srf05web.c:248-269)
CsvLine(lt, e) ==
    [file |-> lt.day, date |-> lt.day, time |-> lt.sec,
     status |-> StatLabel(e.stat), cm |-> e.dcm, raw |-> e.draw]

\* Mutant of DumpOpen: the slot after history.curr is dumped.
DumpOpenNextSlot ==
    /\ proc = "running"
    /\ main.pc = "dump_open"
    /\ \E ok \in BOOLEAN :
         LET p == (history.curr + 1) % MAX_HISTORY IN
         /\ main' = [main EXCEPT
                       !.pc = "dump_write", !.pos = p,
                       !.lt = localtime(history.entries[p].ts),
                       !.file = ok]
         /\ dumped' = Append(dumped,
                             [id |-> nadd, slot |-> p,
                              e |-> history.entries[p], ok |-> ok])
    /\ UNCHANGED <<history, interrupted, proc, clock, log, h, written, nadd,
                   appended, null_write, drv_vars>>

\* dump_history: pos = history.curr; lt = localtime(&entries[pos].ts);
\* file = fopen(file_name, "a+"); if(file == NULL) printf("ERROR: ...")
\* (srf05web.c:242-258)
DumpOpen ==
    /\ proc = "running"
    /\ main.pc = "dump_open"
    /\ \E ok \in BOOLEAN :
         /\ main' = [main EXCEPT
                       !.pc = "dump_write", !.pos = history.curr,
                       !.lt = localtime(history.entries[history.curr].ts),
                       !.file = ok]
         /\ dumped' = Append(dumped,
                             [id |-> nadd, slot |-> history.curr,
                              e |-> history.entries[history.curr],
                              ok |-> ok])
    /\ UNCHANGED <<history, interrupted, proc, clock, log, h, written, nadd,
                   appended, null_write, drv_vars>>

\* What the process does after fprintf(NULL, ...): the behaviour is
\* undefined; it dies on the null stream, or the calls have no effect.
NullStreamOutcomes == {"crashed", "running"}

\* fprintf(file, ...); fclose(file); and back in main: loopcnt = 0
\* (srf05web.c:260-271, 395)
DumpWrite ==
    /\ proc = "running"
    /\ main.pc = "dump_write"
    /\ IF main.file
       THEN /\ log' = Append(log, CsvLine(main.lt, history.entries[main.pos]))
            /\ UNCHANGED <<proc, null_write>>
            /\ main' = [main EXCEPT !.pc = "loop", !.loopcnt = 0]
       ELSE /\ null_write' = TRUE
            /\ log' = log
            /\ \E o \in NullStreamOutcomes :
                 /\ proc' = o
                 /\ main' = IF o = "crashed"
                            THEN [main EXCEPT !.pc = "fault"]
                            ELSE [main EXCEPT !.pc = "loop", !.loopcnt = 0]
    /\ UNCHANGED <<history, interrupted, clock, h, written, nadd, appended,
                   dumped, drv_vars>>

dump_history ==
    \/ DumpOpen
    \/ DumpWrite

\* mg_stop(ctx) waits for the request threads; return 0 (srf05web.c:400-402)
MainStop ==
    /\ proc = "running"
    /\ main.pc = "stop"
    /\ h.pc = "idle"
    /\ proc' = "exited"
    /\ main' = [main EXCEPT !.pc = "done"]
    /\ UNCHANGED <<history, interrupted, clock, log, h, written, nadd,
                   appended, dumped, null_write, drv_vars>>

(* ------------------------------------------------------------------ *)
(* srf05web.c: begin_request_handler()                                 *)
(* ------------------------------------------------------------------ *)

\* The frame of a handler call.  out is the content rendered so far; src,
\* overlap and ts_by are history variables: per rendered entry the slot
\* read, the add_history call that had stored each field read, the number
\* of add_history calls completed at that moment; whether a step of
\* add_history ran during the call; last holds the content of the last
\* history traversal that completed, with no step of add_history during it
\* or since (<<>>: there is none).
IdleH ==
    [pc |-> "idle", uri |-> "", pos |-> 0, i |-> 0,
     lt |-> [day |-> 0, sec |-> 0], todo |-> {},
     raw |-> 0, cm |-> 0, st |-> "", out |-> <<>>, ret |-> 0,
     src |-> <<>>, overlap |-> FALSE, ts_by |-> 0, last |-> <<>>]

\* What a read of history.entries[-1] can return: memory in front of the
\* table, here two of its possible contents.
Garbage == {ZeroEntry, [ts |-> 1, dcm |-> 1, draw |-> 0, stat |-> 1]}

\* history.entries[pos] as a handler reads it.
EntryAt(pos) == IF pos \in Slots THEN {history.entries[pos]} ELSE Garbage

WriterAt(pos) == IF pos \in Slots THEN written[pos] ELSE NoWriter

\* Entry: int pos = history.curr; then the strcmp on the uri
\* (srf05web.c:285-305, 339-341)
Request(uri) ==
    /\ proc = "running"
    /\ h.pc = "idle"
    /\ h' = [IdleH EXCEPT
               !.uri = uri,
               !.last = h.last,
               !.pos = history.curr,
               !.overlap = (main.pc \in AddPcs),
               !.todo = IF uri = "/sensor/srf05"
                        THEN {"raw", "cm", "status"} ELSE {},
               !.ret = IF uri = "/other" THEN 0 ELSE 1,
               !.pc = IF uri = "/sensor/srf05" THEN "latest"
                      ELSE IF uri = "/sensor/srf05/history" THEN "hist_init"
                      ELSE "reply"]
    /\ UNCHANGED <<history, interrupted, proc, main, clock, log, written,
                   nadd, appended, dumped, null_write, drv_vars>>

\* One of the three arguments of the snprintf is evaluated: the order of
\* srf05_read_distance("raw"), srf05_read_distance("cm") and
\* srf05_read_status() is the compiler's (srf05web.c:299-303)
LatestRead ==
    /\ proc = "running"
    /\ h.pc = "latest"
    /\ \E f \in h.todo :
         h' = [h EXCEPT
                 !.todo = h.todo \ {f},
                 !.raw = IF f = "raw" THEN srf05_read_distance("raw")
                         ELSE h.raw,
                 !.cm = IF f = "cm" THEN srf05_read_distance("cm")
                        ELSE h.cm,
                 !.st = IF f = "status" THEN srf05_read_status ELSE h.st,
                 !.pc = IF h.todo = {f} THEN "reply" ELSE "latest"]
    /\ UNCHANGED <<history, interrupted, proc, main, clock, log, written,
                   nadd, appended, dumped, null_write, drv_vars>>

\* Mutant of HistInit: content is a static buffer, and the traversal
\* appends to what the previous one left in it.
HistInitStaticContent ==
    /\ proc = "running"
    /\ h.pc = "hist_init"
    /\ h' = [h EXCEPT !.i = history.count - 1,
                      !.out = IF h.last # <<>> THEN h.last[1] ELSE <<>>,
                      !.pc = IF history.count - 1 >= 0 THEN "hist_ts"
                             ELSE "reply"]
    /\ UNCHANGED <<history, interrupted, proc, main, clock, log, written,
                   nadd, appended, dumped, null_write, drv_vars>>

\* for(i = history.count - 1; i >= 0; ...)  (srf05web.c:309)
HistInit ==
    /\ proc = "running"
    /\ h.pc = "hist_init"
    /\ h' = [h EXCEPT !.i = history.count - 1,
                      !.pc = IF history.count - 1 >= 0 THEN "hist_ts"
                             ELSE "reply"]
    /\ UNCHANGED <<history, interrupted, proc, main, clock, log, written,
                   nadd, appended, dumped, null_write, drv_vars>>

\* lt = localtime(&history.entries[pos].ts);  with pos = -1 the time_t read
\* is arbitrary, and localtime may return NULL for it, which the snprintf
\* dereferences (srf05web.c:311)
HistTs ==
    /\ proc = "running"
    /\ h.pc = "hist_ts"
    /\ \/ /\ \E e \in EntryAt(h.pos) :
               h' = [h EXCEPT !.lt = localtime(e.ts),
                              !.ts_by = WriterAt(h.pos).ts,
                              !.pc = "hist_fields"]
          /\ proc' = proc
       \/ /\ h.pos \notin Slots
          /\ proc' = "crashed"
          /\ h' = h
    /\ UNCHANGED <<history, interrupted, main, clock, log, written, nadd,
                   appended, dumped, null_write, drv_vars>>

\* Mutant of HistFields: the walk wraps to history.size instead of
\* history.size - 1, and from there to slot 0.
HistFieldsWrapsWrong ==
    /\ proc = "running"
    /\ h.pc = "hist_fields"
    /\ \E e \in EntryAt(h.pos) :
         h' = [h EXCEPT
                 !.out = Append(h.out,
                                [date |-> h.lt.day, time |-> h.lt.sec,
                                 distance_raw |-> e.draw,
                                 distance_cm |-> e.dcm,
                                 status |-> StatLabel(e.stat)]),
                 !.src = Append(h.src,
                                [slot |-> h.pos,
                                 by |-> [WriterAt(h.pos) EXCEPT
                                           !.ts = h.ts_by],
                                 done |-> Len(appended)]),
                 !.pos = IF h.pos - 1 < 0 THEN 0 ELSE h.pos - 1,
                 !.i = h.i - 1,
                 !.pc = IF h.i - 1 >= 0 THEN "hist_ts" ELSE "reply"]
    /\ UNCHANGED <<history, interrupted, proc, main, clock, log, written,
                   nadd, appended, dumped, null_write, drv_vars>>

\* Mutant of HistFields: the walk steps history.curr itself instead of the
\* local copy pos.
HistFieldsMovesCurr ==
    /\ proc = "running"
    /\ h.pc = "hist_fields"
    /\ \E e \in EntryAt(h.pos) :
         h' = [h EXCEPT
                 !.out = Append(h.out,
                                [date |-> h.lt.day, time |-> h.lt.sec,
                                 distance_raw |-> e.draw,
                                 distance_cm |-> e.dcm,
                                 status |-> StatLabel(e.stat)]),
                 !.src = Append(h.src,
                                [slot |-> h.pos,
                                 by |-> [WriterAt(h.pos) EXCEPT
                                           !.ts = h.ts_by],
                                 done |-> Len(appended)]),
                 !.pos = IF h.pos - 1 < 0 THEN MAX_HISTORY - 1
                         ELSE h.pos - 1,
                 !.i = h.i - 1,
                 !.pc = IF h.i - 1 >= 0 THEN "hist_ts" ELSE "reply"]
    /\ history' = [history EXCEPT
                     !.curr = IF h.pos - 1 < 0 THEN MAX_HISTORY - 1
                              ELSE h.pos - 1]
    /\ UNCHANGED <<interrupted, proc, main, clock, log, written,
                   nadd, appended, dumped, null_write, drv_vars>>

\* snprintf(histline, ...) with entries[pos].draw, .dcm, .stat;
\* strcat(content, histline); if(--pos < 0) pos = history.size - 1;
\* i--  (srf05web.c:309, 313-332)
HistFields ==
    /\ proc = "running"
    /\ h.pc = "hist_fields"
    /\ \E e \in EntryAt(h.pos) :
         h' = [h EXCEPT
                 !.out = Append(h.out,
                                [date |-> h.lt.day, time |-> h.lt.sec,
                                 distance_raw |-> e.draw,
                                 distance_cm |-> e.dcm,
                                 status |-> StatLabel(e.stat)]),
                 !.src = Append(h.src,
                                [slot |-> h.pos,
                                 by |-> [WriterAt(h.pos) EXCEPT
                                           !.ts = h.ts_by],
                                 done |-> Len(appended)]),
                 !.pos = IF h.pos - 1 < 0 THEN MAX_HISTORY - 1
                         ELSE h.pos - 1,
                 !.i = h.i - 1,
                 !.pc = IF h.i - 1 >= 0 THEN "hist_ts" ELSE "reply"]
    /\ UNCHANGED <<history, interrupted, proc, main, clock, log, written,
                   nadd, appended, dumped, null_write, drv_vars>>

\* mg_printf(conn, ...); return 1;  or return 0 (srf05web.c:340-352)
Reply ==
    /\ proc = "running"
    /\ h.pc = "reply"
    /\ h' = [IdleH EXCEPT
               !.last = IF h.uri = "/sensor/srf05/history" /\ ~h.overlap
                        THEN <<h.out>> ELSE h.last]
    /\ UNCHANGED <<history, interrupted, proc, main, clock, log, written,
                   nadd, appended, dumped, null_write, drv_vars>>

begin_request_handler ==
    \/ \E uri \in URIs : Request(uri)
    \/ LatestRead
    \/ HistInit
    \/ HistTs
    \/ HistFields
    \/ Reply

(* ------------------------------------------------------------------ *)
(* Specifications                                                      *)
(* ------------------------------------------------------------------ *)

WebInit ==
    /\ history = [entries |-> [p \in Slots |-> ZeroEntry],
                  curr |-> -1, count |-> 0]
    /\ interrupted = 0
    /\ proc = "starting"
    /\ main = [pc |-> "start", loopcnt |-> 0, pos |-> 0,
               lt |-> [day |-> 0, sec |-> 0], file |-> FALSE,
               iters |-> 0, gap |-> 0]
    /\ clock = 0
    /\ log = <<>>
    /\ h = IdleH
    /\ written = [p \in Slots |-> NoWriter]
    /\ nadd = 0
    /\ appended = <<>>
    /\ dumped = <<>>
    /\ null_write = FALSE

WebNext ==
    \/ main_start
    \/ sig_handler
    \/ LoopTest
    \/ Sleep
    \/ LoopCheck
    \/ add_history
    \/ dump_history
    \/ MainStop
    \/ begin_request_handler

\* The states in which the module stands between two firings, or is not
\* loaded: what the web service finds in sysfs.
DrvBetweenFirings ==
    /\ cpu = [c \in CPUs |-> IdleFrame]
    /\ fired_late = FALSE
    /\ gpio_misuse = FALSE
    /\ double_arm = FALSE
    /\ inflight = "no"
    /\ \/ /\ mod_pc = "live"
          /\ kobj = TRUE
          /\ gpio = TRUE
          /\ timer_pending = TRUE
          /\ wrote = [distance |-> TRUE, status |-> TRUE]
          /\ \/ distance = MEASURE_XMIT_TIMEOUT - 1 /\ status = 0
             \/ distance = 1 /\ status = 1
       \/ /\ mod_pc = "unloaded"
          /\ kobj = FALSE
          /\ gpio = FALSE
          /\ timer_pending = FALSE
          /\ wrote = [distance |-> FALSE, status |-> FALSE]
          /\ distance = 0
          /\ status = 0

Init == DrvInit /\ WebInit

Next == DrvNext \/ WebNext

\* The whole system: the module, the main loop and a request thread.  Its
\* state space is the product of the three and beyond exhaustive search;
\* the claims are checked on the three projections below, each holding
\* every process its claims are about.
Spec == Init /\ [][Next]_vars

\* The module alone (the web service is not started).
SpecDrv == Init /\ [][DrvNext]_vars

\* The module alone, a started timer function running to its end: it runs
\* in the kernel's timer softirq, which is not descheduled.
SpecDrvFair ==
    Init /\ [][DrvNext]_vars /\ \A c \in CPUs : WF_vars(measure_timer_func(c))

InitWeb == DrvBetweenFirings /\ WebInit

\* The web service: main loop and request thread, with the module between
\* two firings (the sysfs values do not change) or not loaded.
SpecWeb == InitWeb /\ [][WebNext]_vars

MainLoop ==
    \/ LoopTest
    \/ Sleep
    \/ LoopCheck
    \/ add_history
    \/ dump_history
    \/ MainStop

MainNext ==
    \/ main_start
    \/ sig_handler
    \/ MainLoop

\* The main thread of the web service and SIGINT, with no request being
\* served.  The main thread is a running thread of the process: while it has
\* a next statement it executes it, and sleep(1) returns.
SpecShutdown ==
    InitWeb /\ [][MainNext]_vars /\ WF_vars(main_start) /\ WF_vars(MainLoop)

BridgeNext ==
    \/ DrvNext
    \/ main_start
    \/ Request("/sensor/srf05")
    \/ LatestRead
    \/ Reply

\* The module and a request thread serving /sensor/srf05 while the main
\* loop is in its sleep(1).
SpecBridge == Init /\ [][BridgeNext]_vars

(* ------------------------------------------------------------------ *)
(* Claims about srf05.c                                                *)
(* ------------------------------------------------------------------ *)

\* measure() has returned on this CPU and add_timer is not yet called.
MeasureReturned(c) == cpu[c].pc = "rearm"

Timeouts == {"start_timeout", "xmit_timeout"}

\* C6: when measure() returns after a timeout (no poll of the echo-start
\* loop saw the line high, or the echo-width loop was entered and no poll
\* of it saw the line low), status is ERROR and distance is what it was
\* when measure() was called; after an echo-start timeout the echo-width
\* loop made no poll.
C6_TimeoutKeepsDistance ==
    \A c \in CPUs :
      MeasureReturned(c) =>
        /\ (cpu[c].high_at = 0 => cpu[c].res = "start_timeout")
        /\ (cpu[c].wpolls > 0 /\ cpu[c].low_at = 0
              => cpu[c].res = "xmit_timeout")
        /\ (cpu[c].res \in Timeouts
              => status = 1 /\ distance = cpu[c].pre /\ ~cpu[c].stored)
        /\ (cpu[c].res = "start_timeout" => cpu[c].wpolls = 0)

\* C6 witness: an echo-width timeout that leaves a non-zero distance alone.
C6_Witness ==
    \E c \in CPUs :
      /\ MeasureReturned(c)
      /\ cpu[c].res = "xmit_timeout"
      /\ cpu[c].low_at = 0
      /\ cpu[c].pre > 0
      /\ distance = cpu[c].pre
      /\ status = 1

\* C7: when the line was seen high by a poll made within the echo-start
\* budget (t < MEASURE_START_TIMEOUT) and then seen low by a poll made
\* within the echo-width budget (t < MEASURE_XMIT_TIMEOUT), measure()
\* returns with status OPERATIONAL and distance equal to the number of
\* increments of the echo-width loop.
C7_EchoMeasured ==
    \A c \in CPUs :
      ( /\ MeasureReturned(c)
        /\ cpu[c].high_at \in 1..MEASURE_START_TIMEOUT
        /\ cpu[c].low_at \in 1..MEASURE_XMIT_TIMEOUT )
      => /\ cpu[c].res = "ok"
         /\ status = 0
         /\ distance = cpu[c].incs
         /\ cpu[c].low_at = cpu[c].incs + 1

\* C7 witness: a two-tick echo measured by a call that found status ERROR.
C7_Witness ==
    \E c \in CPUs :
      /\ MeasureReturned(c)
      /\ cpu[c].pre_st = 1
      /\ cpu[c].spolls > 1
      /\ cpu[c].res = "ok"
      /\ cpu[c].incs = 2
      /\ distance = 2
      /\ status = 0

\* The firings that have started and not yet re-armed the timer.
Unarmed == {c \in CPUs : cpu[c].pc \notin {"idle", "ret"}}

\* C9: at most one measure() runs at a time; a firing calls measure() once
\* and add_timer once, and add_timer only after measure() has returned; the
\* timer is never queued while a firing has not yet re-armed it, and never
\* armed while queued.
C9_FiringsSerialized ==
    /\ Cardinality({c \in CPUs : InMeasure(c)}) <= 1
    /\ Cardinality(Unarmed) + (IF timer_pending THEN 1 ELSE 0) <= 1
    /\ ~double_arm
    /\ \A c \in CPUs :
         /\ (cpu[c].pc = "call" => cpu[c].calls = 0 /\ cpu[c].arms = 0)
         /\ (InMeasure(c) => cpu[c].calls = 1 /\ cpu[c].arms = 0)
         /\ (cpu[c].pc = "rearm"
               => cpu[c].calls = 1 /\ cpu[c].arms = 0
                  /\ cpu[c].res # "none")
         /\ (cpu[c].pc = "ret" => cpu[c].calls = 1 /\ cpu[c].arms = 1)

\* C9 witness: a firing whose measure() ended in ERROR has re-armed the
\* timer and the next firing has started on another CPU.
C9_Witness ==
    \E c, d \in CPUs :
      /\ cpu[c].pc = "ret"
      /\ cpu[c].arms = 1
      /\ status = 1
      /\ cpu[d].pc = "call"

TornDown == mod_pc \in {"exit_free", "gone"}

\* C10 as stated: no firing starts once srf05_exit has begun, a measure()
\* in flight at that moment has returned before the line is freed, and the
\* line is never accessed while it is not requested.
C10_Original ==
    /\ ~fired_late
    /\ (TornDown => inflight # "yes" /\ \A c \in CPUs : ~Running(c))
    /\ ~gpio_misuse

\* C10 amended: once del_timer_sync has returned the timer is not queued
\* and no firing runs or starts (a firing can still start while srf05_exit
\* is before del_timer_sync); a measure() in flight when srf05_exit began
\* has returned by then; the line is never accessed while not requested.
C10_NoFiringAfterDelTimerSync ==
    /\ (TornDown =>
          /\ ~timer_pending
          /\ \A c \in CPUs : ~Running(c)
          /\ inflight # "yes")
    /\ ~gpio_misuse

\* C10 witness: the module is gone, a measure() was in flight when
\* srf05_exit began and has returned.
C10_Witness ==
    /\ mod_pc = "gone"
    /\ inflight = "done"
    /\ ~gpio

(* ------------------------------------------------------------------ *)
(* Claims about srf05web.c                                             *)
(* ------------------------------------------------------------------ *)

Min(a, b) == IF a <= b THEN a ELSE b

\* A history_entry as the handler renders it (srf05web.c:311-324).
Render(e) ==
    [date |-> localtime(e.ts).day, time |-> localtime(e.ts).sec,
     distance_raw |-> e.draw, distance_cm |-> e.dcm,
     status |-> StatLabel(e.stat)]

\* The handler has rendered the whole history and is about to send it.
HistoryReply == h.pc = "reply" /\ h.uri = "/sensor/srf05/history"

\* The last n entries stored by completed add_history calls, newest first.
NewestFirst(n) ==
    [j \in 1..n |-> Render(appended[Len(appended) - j + 1].e)]

\* C1: a history traversal during which no step of add_history ran, made
\* after k completed add_history calls, renders exactly min(k, MAX_HISTORY)
\* entries: the last min(k, MAX_HISTORY) appended, newest first, each slot
\* read once.
C1_NewestFirst ==
    (HistoryReply /\ ~h.overlap) =>
      LET n == Min(Len(appended), MAX_HISTORY) IN
      /\ Len(h.out) = n
      /\ h.out = NewestFirst(n)
      /\ \A i, j \in 1..Len(h.src) :
           i # j => h.src[i].slot # h.src[j].slot /\ h.out[i] # h.out[j]

\* C1 witness: a quiet traversal after MAX_HISTORY + 1 appends has rendered
\* MAX_HISTORY entries, the newest first and the oldest evicted.
C1_Witness ==
    /\ HistoryReply
    /\ ~h.overlap
    /\ Len(appended) = MAX_HISTORY + 1
    /\ Len(h.out) = MAX_HISTORY
    /\ h.out[1] = Render(appended[MAX_HISTORY + 1].e)
    /\ h.out[MAX_HISTORY] = Render(appended[2].e)

\* C2: every entry a traversal has rendered from a slot that add_history
\* has stored into has its four fields from one add_history call, and that
\* call had completed when the fields were read (in a run in which every
\* history file could be opened).
C2_NoPartialEntry ==
    ~null_write =>
      \A j \in 1..Len(h.src) :
        LET b == h.src[j].by IN
        (b.ts # 0 \/ b.dcm # 0 \/ b.draw # 0 \/ b.stat # 0) =>
          /\ b.ts = b.dcm
          /\ b.dcm = b.draw
          /\ b.draw = b.stat
          /\ b.stat <= h.src[j].done

\* C3: every slot index a traversal reads lies in 0..MAX_HISTORY-1 and is a
\* slot a completed add_history had stored into, and the traversal reads no
\* more entries than have been appended (in a run in which every history
\* file could be opened).
C3_WithinCount ==
    ~null_write =>
      /\ (h.pc = "hist_fields" => h.pos \in Slots)
      /\ \A j \in 1..Len(h.src) :
           /\ h.src[j].slot \in Slots
           /\ \E k \in 1..h.src[j].done : appended[k].slot = h.src[j].slot
           /\ j <= h.src[j].done

\* main() is not between the entry of add_history and the return of
\* dump_history.
OutsidePair == main.pc \notin (AddPcs \cup {"dump_open", "dump_write"})

\* The line dump_history writes for an entry.
LineOf(e) == CsvLine(localtime(e.ts), e)

\* The dump_history calls whose fprintf has been reached.
Written ==
    IF main.pc = "dump_write" THEN SubSeq(dumped, 1, Len(dumped) - 1)
    ELSE dumped

IsOpened(d) == d.ok

RECURSIVE LinesOf(_)
LinesOf(ds) ==
    IF ds = <<>> THEN <<>>
    ELSE <<LineOf(Head(ds).e)>> \o LinesOf(Tail(ds))

\* C4 as stated: whenever main() is outside an add_history/dump_history
\* pair, the log holds one line per appended entry, in append order.
C4_Original ==
    OutsidePair =>
      log = [k \in 1..Len(appended) |-> LineOf(appended[k].e)]

\* C4 amended: every add_history is followed, before the next one, by one
\* dump_history call; that call reads the slot at history.curr, which holds
\* the entry just appended; when its fopen succeeds it writes the line of
\* that entry once, and when it fails the entry is not persisted at all; so
\* the log holds, in append order and without repetition, the lines of the
\* entries whose file could be opened.
C4_PersistedInOrder ==
    /\ Len(dumped) <= Len(appended)
    /\ Len(appended) <= Len(dumped) + 1
    /\ (OutsidePair => Len(dumped) = Len(appended))
    /\ \A k \in 1..Len(dumped) :
         /\ dumped[k].id = k
         /\ dumped[k].slot = appended[k].slot
         /\ dumped[k].e = appended[k].e
    /\ log = LinesOf(SelectSeq(Written, IsOpened))
    /\ \A i, j \in 1..Len(log) :
         i < j => \/ log[i].date < log[j].date
                  \/ log[i].date = log[j].date /\ log[i].time < log[j].time

\* C4 witness: MAX_HISTORY + 1 entries were appended, the file of the first
\* could not be opened, the others are in the log.
C4_Witness ==
    /\ OutsidePair
    /\ proc = "running"
    /\ Len(appended) = MAX_HISTORY + 1
    /\ ~dumped[1].ok
    /\ Len(log) = MAX_HISTORY
    /\ log[MAX_HISTORY] = LineOf(appended[MAX_HISTORY + 1].e)

\* C5: a failed fopen in dump_history is followed by no fprintf or fclose
\* on the null FILE pointer, and the process does not die of it.
C5_OpenFailureSurvived ==
    /\ ~null_write
    /\ main.pc # "fault"

\* C8: cm equals raw divided by srf05_cmdiv in every /sensor/srf05 response
\* and every rendered history entry whose two values are not -1.
C8_CmIsRawOverDivisor ==
    /\ (h.pc = "reply" /\ h.uri = "/sensor/srf05"
          /\ h.raw # -1 /\ h.cm # -1)
       => h.cm = h.raw \div srf05_cmdiv
    /\ \A j \in 1..Len(h.out) :
         (h.out[j].distance_raw # -1 /\ h.out[j].distance_cm # -1)
         => h.out[j].distance_cm = h.out[j].distance_raw \div srf05_cmdiv

(* ------------------------------------------------------------------ *)
(* Claims about the readers of the sysfs attributes                    *)
(* ------------------------------------------------------------------ *)

\* The handler has read the three values and is about to send them.
LatestReply == h.pc = "reply" /\ h.uri = "/sensor/srf05"

Exited == main.pc \in {"stop", "done"}

\* C12: once SIGINT has set interrupted the main loop eventually exits; no
\* add_history begins after the loop has exited; and when the loop has
\* exited every add_history that ran has been followed by a dump_history
\* that ran to its end, the log holding whole lines only: the lines of the
\* entries whose file could be opened.
C12_ShutdownCompletes ==
    /\ [](Exited =>
            /\ Len(appended) = nadd
            /\ Len(dumped) = nadd
            /\ log = LinesOf(SelectSeq(dumped, IsOpened)))
    /\ [][Exited => (Exited' /\ nadd' = nadd /\ appended' = appended)]_vars
    /\ ((interrupted = 1) ~> Exited)

(* ------------------------------------------------------------------ *)
(* Claims about begin_request_handler                                  *)
(* ------------------------------------------------------------------ *)

\* C13: no step of begin_request_handler, for /sensor/srf05,
\* /sensor/srf05/history or any other path, changes history.curr,
\* history.count or an entry of the history, nor the raw distance or the
\* status of the sensor.
C13_QueriesReadOnly ==
    [][begin_request_handler =>
         /\ history'.curr = history.curr
         /\ history'.count = history.count
         /\ history'.entries = history.entries
         /\ distance' = distance
         /\ status' = status]_vars

\* C13 witness: a traversal of a history of two entries has rendered both
\* and the ring is as the two add_history calls left it.
C13_Witness ==
    /\ HistoryReply
    /\ Len(h.out) = 2
    /\ Len(appended) = 2
    /\ history.curr = 1
    /\ history.count = 2
    /\ \A k \in 1..2 : history.entries[appended[k].slot] = appended[k].e

\* C14: a history traversal during which no step of add_history ran, made
\* after another such traversal with no step of add_history in between,
\* renders the same sequence of entries as that one.
C14_TraversalRepeatable ==
    (HistoryReply /\ ~h.overlap /\ h.last # <<>>) => h.out = h.last[1]

\* C14 witness: the second of two traversals of a full history that has
\* wrapped once.
C14_Witness ==
    /\ HistoryReply
    /\ ~h.overlap
    /\ h.last # <<>>
    /\ Len(appended) = MAX_HISTORY + 1
    /\ Len(h.out) = MAX_HISTORY
    /\ h.out = h.last[1]

(* ------------------------------------------------------------------ *)
(* Claims about the sensor state and its readers                       *)
(* ------------------------------------------------------------------ *)

\* The /sensor/srf05 handler has read this sysfs attribute.
HasRead(f) ==
    /\ h.uri = "/sensor/srf05"
    /\ h.pc \in {"latest", "reply"}
    /\ f \notin h.todo

\* C15: every raw value and every status a reader has got from the sysfs
\* accessors was assigned by some measure() call, also when the read is
\* made before the first firing of the timer; and when a measure() call has
\* returned, the accessors return its result (its status, and its tick
\* count when it measured an echo).
C15_ReadsAreMeasured ==
    /\ (HasRead("raw") /\ h.raw # -1 => wrote.distance)
    /\ (HasRead("status") /\ h.st # "UNKNOWN" => wrote.status)
    /\ \A c \in CPUs :
         MeasureReturned(c) =>
           /\ sysfs_status_show =
                IF cpu[c].res = "ok" THEN "OPERATIONAL" ELSE "ERROR"
           /\ (cpu[c].res = "ok" => sysfs_distance_raw_show = cpu[c].incs)

(* ------------------------------------------------------------------ *)
(* Claims about measure()                                              *)
(* ------------------------------------------------------------------ *)

\* C16: whatever levels the line shows, a measure() call polls it at most
\* MEASURE_START_TIMEOUT + 1 times in the echo-start loop and at most
\* MEASURE_XMIT_TIMEOUT + 1 times in the echo-width loop (not at all after
\* an echo-start timeout), and every measure() call that has begun returns.
C16_MeasureTerminates ==
    /\ [](\A c \in CPUs :
            /\ cpu[c].spolls <= MEASURE_START_TIMEOUT + 1
            /\ cpu[c].wpolls <= MEASURE_XMIT_TIMEOUT + 1
            /\ cpu[c].spolls + cpu[c].wpolls
                 <= (MEASURE_START_TIMEOUT + 1) + (MEASURE_XMIT_TIMEOUT + 1)
            /\ (cpu[c].res = "start_timeout" => cpu[c].wpolls = 0))
    /\ \A c \in CPUs : InMeasure(c) ~> MeasureReturned(c)

\* C16 witness: the longest call: the line went high at the last poll
\* within the echo-start budget and then stayed high.
C16_Witness ==
    \E c \in CPUs :
      /\ MeasureReturned(c)
      /\ cpu[c].spolls = MEASURE_START_TIMEOUT
      /\ cpu[c].wpolls = MEASURE_XMIT_TIMEOUT + 1
      /\ cpu[c].low_at = 0
      /\ cpu[c].res = "xmit_timeout"

\* C17 as stated: after an echo-start ERROR no poll of the echo-start loop
\* has returned high, and after an echo-width ERROR no poll of the
\* echo-width loop has returned low.
C17_Original ==
    \A c \in CPUs :
      MeasureReturned(c) =>
        /\ (cpu[c].res = "start_timeout" => cpu[c].high_at = 0)
        /\ (cpu[c].res = "xmit_timeout" => cpu[c].low_at = 0)

\* C17 amended: measure() returns with status ERROR only after a timeout;
\* after an echo-start ERROR none of the MEASURE_START_TIMEOUT polls made
\* while the counter was below the bound has returned high, and after an
\* echo-width ERROR none of the MEASURE_XMIT_TIMEOUT polls made while the
\* counter was below the bound has returned low; the one further poll, made
\* when the counter has just reached the bound, may have returned the
\* awaited level, and ERROR is reported all the same.
C17_ErrorOnlyIfNotSeenInBudget ==
    \A c \in CPUs :
      MeasureReturned(c) =>
        /\ (status = 1 => cpu[c].res \in Timeouts)
        /\ (cpu[c].res = "start_timeout" =>
              /\ cpu[c].spolls = MEASURE_START_TIMEOUT + 1
              /\ cpu[c].high_at \in {0, MEASURE_START_TIMEOUT + 1})
        /\ (cpu[c].res = "xmit_timeout" =>
              /\ cpu[c].wpolls = MEASURE_XMIT_TIMEOUT + 1
              /\ cpu[c].low_at \in {0, MEASURE_XMIT_TIMEOUT + 1})

\* C17 witness: an echo-width ERROR whose last poll, made when the counter
\* had just reached the bound, returned low.
C17_Witness ==
    \E c \in CPUs :
      /\ MeasureReturned(c)
      /\ status = 1
      /\ cpu[c].res = "xmit_timeout"
      /\ cpu[c].t = MEASURE_XMIT_TIMEOUT
      /\ cpu[c].low_at = MEASURE_XMIT_TIMEOUT + 1

(* ------------------------------------------------------------------ *)
(* Claims about the history interval and the ring                      *)
(* ------------------------------------------------------------------ *)

\* C18: between two consecutive add_history calls of the main loop exactly
\* HISTORY_INTERVAL iterations of the loop (sleep(1) calls) elapse.
C18_IntervalIsHistoryInterval ==
    nadd >= 2 => main.gap = HISTORY_INTERVAL

\* C19: whenever main() is not inside add_history, with k the number of
\* add_history calls made: 0 <= count <= MAX_HISTORY,
\* -1 <= curr <= MAX_HISTORY - 1, count = 0 exactly when curr = -1,
\* count = curr + 1 while count < MAX_HISTORY, count = min(k, MAX_HISTORY),
\* and curr = (k - 1) mod MAX_HISTORY for k >= 1.
C19_RingConsistent ==
    main.pc \notin AddPcs =>
      LET k == nadd IN
      /\ Len(appended) = k
      /\ history.count \in 0..MAX_HISTORY
      /\ history.curr \in -1..(MAX_HISTORY - 1)
      /\ (history.count = 0 <=> history.curr = -1)
      /\ (history.count < MAX_HISTORY => history.count = history.curr + 1)
      /\ history.count = Min(k, MAX_HISTORY)
      /\ (k >= 1 => history.curr = (k - 1) % MAX_HISTORY)
      /\ (k = 0 => history.curr = -1)

\* C19 witness: the ring has wrapped: MAX_HISTORY + 1 appends, the cursor
\* back on slot 0, the count at MAX_HISTORY.
C19_Witness ==
    /\ main.pc \notin AddPcs
    /\ nadd = MAX_HISTORY + 1
    /\ history.curr = 0
    /\ history.count = MAX_HISTORY

(* ------------------------------------------------------------------ *)
(* Claims about the raw distance                                       *)
(* ------------------------------------------------------------------ *)

\* C20: in every state of the driver 0 <= distance < MEASURE_XMIT_TIMEOUT;
\* a measure() call that has assigned distance assigned the tick count of
\* its echo-width loop, which stopped below the bound, and returned with
\* status OPERATIONAL; a call that returns with status ERROR has not
\* assigned distance.
C20_DistanceBelowBound ==
    /\ distance \in 0..(MEASURE_XMIT_TIMEOUT - 1)
    /\ \A c \in CPUs :
         /\ (cpu[c].stored =>
               /\ cpu[c].res = "ok"
               /\ cpu[c].t < MEASURE_XMIT_TIMEOUT
               /\ distance = cpu[c].t
               /\ status = 0)
         /\ (MeasureReturned(c) /\ status = 1 =>
               /\ ~cpu[c].stored
               /\ distance = cpu[c].pre)
         /\ (cpu[c].pc = "store" => cpu[c].t < MEASURE_XMIT_TIMEOUT)

\* C20 witness: the largest distance: an echo of MEASURE_XMIT_TIMEOUT - 1
\* ticks was stored, and a later call that timed out has left it alone.
C20_Witness ==
    \E c \in CPUs :
      /\ MeasureReturned(c)
      /\ status = 1
      /\ ~cpu[c].stored
      /\ cpu[c].pre = MEASURE_XMIT_TIMEOUT - 1
      /\ distance = MEASURE_XMIT_TIMEOUT - 1

=============================================================================
